---- MODULE Spec2Model ----
(***************************************************************************)
(* The EVP_MAC context layer of contrib/openssl/crypto/evp/mac_lib.c:      *)
(* context create / duplicate / free over a reference-counted algorithm    *)
(* descriptor (EVP_MAC), streaming dispatch to the provider's operation    *)
(* table, the two finalisation entry points and the parameter calls.       *)
(*                                                                         *)
(* The whole program state is gathered in one record (see Cur): every      *)
(* handler is an operator from a state record to the state record after    *)
(* the call, so that a handler which calls another one (EVP_MAC_CTX_dup    *)
(* calls EVP_MAC_CTX_free) is the composition of the two.  The inputs a    *)
(* handler cannot control (does the allocation succeed, what does the      *)
(* provider return) are parameters, drawn by the actions with \E.          *)
(***************************************************************************)
EXTENDS Integers, Sequences, FiniteSets, TLC

\* ------------------------------------------------------------- bounds
NThreads == 2     \* threads of the interleaved specification
MaxCtx   == 3     \* EVP_MAC_CTX objects ever allocated
MaxMacCtx == 2    \* of these, in the streaming specification
MaxData  == 3     \* provider states ever produced by newctx / dupctx
MaxIncs  == 4     \* callers stop acquiring once this many increments were made
MaxKey   == 2     \* keys are 1..MaxKey
MaxByte  == 2     \* data chunks are 1..MaxByte
MaxAcc   == 2     \* chunks one provider state accumulates
MaxOut   == 3     \* output buffer sizes are AlgSize - 1..MaxOut
AlgSize  == 2     \* the output length the algorithm declares
MaxAgain == 1     \* frees of an already freed handle
MaxArgs  == 3     \* arguments on a command line of the scope CLI

NULL == 0

Threads == 1..NThreads
CtxIds  == 1..MaxCtx
DataIds == 1..MaxData

VARIABLES
    meth,      \* the descriptor's operation table: which entries are non-NULL
    refcnt,    \* EVP_MAC.refcnt
    torn,      \* how many times the descriptor's resources were released
    incs,      \* successful reference increments so far
    decs,      \* reference decrements so far
    acq,       \* per thread: references it acquired itself and has not released
    ctx,       \* the EVP_MAC_CTX objects: [st, meth, data, owner, handle]
    heap,      \* the provider states: [st, key, acc, xof]
    nfree,     \* freectx invocations per argument (index NULL: freectx(NULL))
    last,      \* the outcome of the last engine call, as its caller sees it
    crashed,   \* the process died (a call through a NULL function pointer)
    again,     \* frees of an already freed handle so far
    pc,        \* interleaved specification: each thread's position
    loc,       \* interleaved specification: each thread's locals
    cli        \* the scope CLI: the command line, its flag list, the error returned

vars == <<meth, refcnt, torn, incs, decs, acq, ctx, heap, nfree, last, crashed,
          again, pc, loc, cli>>

\* The program state as one record.
Cur ==
    [meth |-> meth, refcnt |-> refcnt, torn |-> torn, incs |-> incs, decs |-> decs,
     acq |-> acq, ctx |-> ctx, heap |-> heap, nfree |-> nfree, last |-> last,
     crashed |-> crashed, again |-> again]

\* The state after a step is the record x.
Becomes(x) ==
    \E s \in {x} :
        /\ meth' = s.meth
        /\ refcnt' = s.refcnt
        /\ torn' = s.torn
        /\ incs' = s.incs
        /\ decs' = s.decs
        /\ acq' = s.acq
        /\ ctx' = s.ctx
        /\ heap' = s.heap
        /\ nfree' = s.nfree
        /\ last' = s.last
        /\ crashed' = s.crashed
        /\ again' = s.again
        /\ cli' = cli

\* ------------------------------------------------------------- outcomes
NoOut == [key |-> 0, acc |-> <<>>, len |-> 0]
\* A parameter array no handler wrote to: size, the output length; xof, the
\* extendable-output flag.
NoParams == [size |-> 0, xof |-> FALSE]
Unset == -1

\* An EVP_MAC_CTX never allocated.  meth, data: the C fields; owner: the thread
\* that made it; handle: it was returned to its caller.  For the properties
\* only: fed, the key and the chunks passed through this context; fin, it was
\* finalised; from, the context it was duplicated from; size, what
\* EVP_MAC_CTX_get_mac_size last returned for it since it has a key.
NoCtx  == [st |-> "unused", meth |-> FALSE, handle |-> FALSE, data |-> NULL, owner |-> 1,
           fed |-> [key |-> 0, acc |-> <<>>], fin |-> FALSE, from |-> NULL,
           size |-> Unset]
\* A provider state never allocated: its key, the chunks it accumulated, and
\* whether it was switched to extendable output.
NoData == [st |-> "unalloc", key |-> 0, acc |-> <<>>, xof |-> FALSE]

\* What the caller of an engine function observes: the function, its argument,
\* the return value (for a pointer: the context id, NULL for none), the error
\* raised with ERR_raise, the value stored through outl (Unset: nothing stored),
\* the bytes stored in out, and the provider operations the call invoked.
\* pre and was are the reference count and the state of the argument when the
\* call was made.
\* For the finalisation calls: buf and outlp, whether an output buffer and a
\* length pointer were passed, outsize, the buffer's size, and ans, how the
\* provider answered a size request.  snap is the provider state of the
\* argument before the call; setOk, whether the provider's set_ctx_params
\* accepts what it is given during the call; got, the parameter values a get
\* call stored in its caller's array.
Call(op, c) ==
    [op |-> op, arg |-> c, res |-> 0, err |-> "none", outl |-> Unset,
     out |-> NoOut, calls |-> <<>>, pre |-> 0, was |-> "none",
     buf |-> FALSE, outlp |-> FALSE, outsize |-> 0, ans |-> "size", snap |-> NoData,
     setOk |-> TRUE, got |-> NoParams]

Begin(s, op, c) ==
    [s EXCEPT !.last = [Call(op, c) EXCEPT
                           !.pre = s.refcnt,
                           !.was = IF c = NULL THEN "none" ELSE s.ctx[c].st,
                           !.snap = IF c = NULL \/ s.ctx[c].data = NULL THEN NoData
                                    ELSE s.heap[s.ctx[c].data]]]
Invoke(s, f)    == [s EXCEPT !.last.calls = Append(@, f)]
Raise(s, e)     == [s EXCEPT !.last.err = e]
Return(s, r)    == [s EXCEPT !.last.res = r]

\* ------------------------------------------------------------- memory
FreshCtx(s)  == CHOOSE c \in CtxIds : s.ctx[c].st = "unused"
                    /\ \A d \in CtxIds : s.ctx[d].st = "unused" => c <= d
FreshData(s) == CHOOSE d \in DataIds : s.heap[d].st = "unalloc"
                    /\ \A e \in DataIds : s.heap[e].st = "unalloc" => d <= e
HasCtx(s)    == \E c \in CtxIds : s.ctx[c].st = "unused"
HasData(s)   == \E d \in DataIds : s.heap[d].st = "unalloc"

\* OPENSSL_free(ctx): the memory keeps its bytes, the handle dangles.
OPENSSL_free(s, c) ==
    [s EXCEPT !.ctx[c] = [NoCtx EXCEPT !.st = "freed", !.meth = s.ctx[c].meth,
                                        !.data = s.ctx[c].data, !.owner = s.ctx[c].owner,
                                        !.handle = s.ctx[c].handle]]

\* ------------------------------------------------------------- descriptor
\* EVP_MAC_up_ref: one atomic increment; reports failure without incrementing.
EVP_MAC_up_ref(s, ok) ==
    IF ok THEN [s EXCEPT !.refcnt = @ + 1, !.incs = @ + 1] ELSE s

\* The value the atomic decrement of EVP_MAC_free observes.
DownRef(s) == s.refcnt - 1

\* The descriptor's resources are released when the decrement observed zero.
LastRef(ref) == ref <= 0

\* EVP_MAC_free, first half: the atomic decrement.
DownRefStep(s) == [s EXCEPT !.refcnt = DownRef(s), !.decs = @ + 1]

\* EVP_MAC_free, second half: the teardown, by the caller that observed ref.
Teardown(s, ref) == IF LastRef(ref) THEN [s EXCEPT !.torn = @ + 1] ELSE s

\* EVP_MAC_free: one atomic decrement, then the teardown if it was the last.
EVP_MAC_free(s) == Teardown(DownRefStep(s), DownRef(s))

\* ------------------------------------------------------------- provider
\* mac->newctx: a fresh provider state, or NULL.
newctx(s, ok) ==
    IF ok THEN [Invoke(s, "newctx") EXCEPT !.heap[FreshData(s)].st = "alive"]
    ELSE Invoke(s, "newctx")

\* mac->freectx(d): destroys the state d; freectx(NULL) destroys nothing.
freectx(s, d) ==
    LET s1 == [Invoke(s, "freectx") EXCEPT !.nfree[d] = @ + 1]
    IN  IF d = NULL THEN s1 ELSE [s1 EXCEPT !.heap[d] = [NoData EXCEPT !.st = "destroyed"]]

\* mac->dupctx(d): a fresh provider state holding a copy of d's, or NULL.
dupctx(s, d, ok) ==
    IF ok THEN [Invoke(s, "dupctx") EXCEPT !.heap[FreshData(s)] = s.heap[d]]
    ELSE Invoke(s, "dupctx")

\* ------------------------------------------------------------- lifecycle
\* EVP_MAC_CTX_new, line 24 and the second operand of line 26: the zeroed
\* object, its data set to what newctx returned.
CtxNewAlloc(s, t, newOk) ==
    [newctx(s, newOk) EXCEPT
        !.ctx[FreshCtx(s)] = [NoCtx EXCEPT !.st = "live", !.owner = t,
                                           !.data = IF newOk THEN FreshData(s) ELSE NULL]]

\* CtxNewFail releasing the object without destroying its provider state.
CtxNewFail_leak(s, c) == Return(OPENSSL_free(Raise(s, "MALLOC_FAILURE"), c), NULL)

\* EVP_MAC_CTX_new, lines 29-33: the failure branch for an allocated object.
CtxNewFail(s, c) ==
    Return(OPENSSL_free(freectx(Raise(s, "MALLOC_FAILURE"), s.ctx[c].data), c), NULL)

\* CtxNewRef handing the context out without a reference of its own.
CtxNewRef_noref(s, c, upOk) ==
    Return([s EXCEPT !.ctx[c].meth = TRUE, !.ctx[c].handle = TRUE], c)

\* EVP_MAC_CTX_new, line 28 and lines 34-37: take the context's reference, bind
\* the descriptor and hand the context out; no reference, no context.
CtxNewRef(s, c, upOk) ==
    IF ~upOk THEN CtxNewFail(EVP_MAC_up_ref(s, FALSE), c)
    ELSE Return([EVP_MAC_up_ref(s, TRUE) EXCEPT !.ctx[c].meth = TRUE,
                                                !.ctx[c].handle = TRUE], c)

EVP_MAC_CTX_new(s, t, allocOk, newOk, upOk) ==
    IF ~allocOk THEN Return(Raise(s, "MALLOC_FAILURE"), NULL)
    ELSE
      LET c  == FreshCtx(s)
          s1 == CtxNewAlloc(s, t, newOk)
      IN  IF s1.ctx[c].data = NULL THEN CtxNewFail(s1, c) ELSE CtxNewRef(s1, c, upOk)

\* EVP_MAC_CTX_free, lines 44-45: destroy the provider state, forget it.
CtxFreeData(s, c) == [freectx(s, s.ctx[c].data) EXCEPT !.ctx[c].data = NULL]

\* EVP_MAC_CTX_free without the NULL test of lines 42-43.
EVP_MAC_CTX_free_nocheck(s, c) ==
    IF c = NULL THEN EVP_MAC_free(freectx(s, NULL))
    ELSE OPENSSL_free(EVP_MAC_free(CtxFreeData(s, c)), c)

EVP_MAC_CTX_free(s, c) ==
    IF c = NULL THEN s ELSE OPENSSL_free(EVP_MAC_free(CtxFreeData(s, c)), c)

\* A call through a NULL entry of the operation table: the process dies, or the
\* call comes back as if the entry had returned NULL.
NullCall(s, f, ub) ==
    IF ub = "crash" THEN [Invoke(s, f) EXCEPT !.crashed = TRUE] ELSE Invoke(s, f)

\* EVP_MAC_CTX_dup, lines 58 and 64: the new object is a bytewise copy of src.
CtxDupAlloc(s, t, src) ==
    [s EXCEPT !.ctx[FreshCtx(s)] =
                 [s.ctx[src] EXCEPT !.owner = t, !.handle = FALSE, !.from = src]]

\* CtxDupRef releasing the copy with EVP_MAC_CTX_free although no reference was
\* taken for it.
CtxDupRef_free(s, dst, upOk) ==
    IF upOk THEN EVP_MAC_up_ref(s, TRUE)
    ELSE Return(OPENSSL_free(EVP_MAC_free(CtxFreeData(
                    Raise(EVP_MAC_up_ref(s, FALSE), "MALLOC_FAILURE"), dst)), dst), NULL)

\* EVP_MAC_CTX_dup, lines 65-69: the copy's own reference; without it the copy
\* is released as plain memory.
CtxDupRef(s, dst, upOk) ==
    IF upOk THEN EVP_MAC_up_ref(s, TRUE)
    ELSE Return(OPENSSL_free(Raise(EVP_MAC_up_ref(s, FALSE), "MALLOC_FAILURE"), dst), NULL)

\* CtxDupData without the dupctx call: the copy keeps the pointer line 64 copied.
CtxDupData_shallow(s, src, dst, dupOk, ub) == s

\* EVP_MAC_CTX_dup, line 71: the copy's data is what dupctx returns.
CtxDupData(s, src, dst, dupOk, ub) ==
    IF s.meth.dupctx
    THEN [dupctx(s, s.ctx[src].data, dupOk) EXCEPT
             !.ctx[dst].data = IF dupOk THEN FreshData(s) ELSE NULL]
    ELSE [NullCall(s, "dupctx", ub) EXCEPT !.ctx[dst].data = NULL]

\* CtxDupEnd releasing the failed copy as plain memory: its reference stays taken.
CtxDupEnd_leak(s, dst) ==
    IF s.crashed THEN s
    ELSE IF s.ctx[dst].data = NULL THEN Return(OPENSSL_free(s, dst), NULL)
    ELSE Return([s EXCEPT !.ctx[dst].handle = TRUE], dst)

\* EVP_MAC_CTX_dup, lines 72-77.
CtxDupEnd(s, dst) ==
    IF s.crashed THEN s
    ELSE IF s.ctx[dst].data = NULL THEN Return(EVP_MAC_CTX_free(s, dst), NULL)
    ELSE Return([s EXCEPT !.ctx[dst].handle = TRUE], dst)

EVP_MAC_CTX_dup(s, t, src, allocOk, upOk, dupOk, ub) ==
    IF s.ctx[src].data = NULL THEN Return(s, NULL)
    ELSE IF ~allocOk THEN Return(Raise(s, "MALLOC_FAILURE"), NULL)
    ELSE
      LET dst == FreshCtx(s)
          s1  == CtxDupRef(CtxDupAlloc(s, t, src), dst, upOk)
      IN  IF ~upOk THEN s1 ELSE CtxDupEnd(CtxDupData(s1, src, dst, dupOk, ub), dst)

\* ------------------------------------------------------------- provider, streaming
Keys     == 1..MaxKey
Bytes    == 1..MaxByte
OutSizes == (AlgSize - 1)..MaxOut
\* How a provider's get handler answers a request for the size parameter: it
\* stores the size, it knows no such parameter and stores nothing, or it fails.
Answers  == {"size", "silent", "fail"}

\* mac->init(d, key): binds the key and starts a computation, or rejects the key.
init(s, d, key, ok) ==
    IF ok THEN [Invoke(s, "init") EXCEPT !.heap[d].key = key, !.heap[d].acc = <<>>]
    ELSE Invoke(s, "init")

\* mac->update(d, b): appends the chunk b.
update(s, d, b) == [Invoke(s, "update") EXCEPT !.heap[d].acc = Append(@, b)]

\* mac->set_ctx_params(d, {xof}): an algorithm with extendable output switches
\* the state to it (the callers below have it accept); any other ignores the
\* parameter (ok) or rejects it.
set_ctx_params(s, d, ok) ==
    IF ok /\ s.meth.xof THEN [Invoke(s, "set_ctx_params") EXCEPT !.heap[d].xof = TRUE]
    ELSE Invoke(s, "set_ctx_params")

\* The length mac->final produces from the state h into a buffer of outsize
\* bytes: the declared one, or, for extendable output, the buffer's.
FinalLen(h, outsize) == IF h.xof THEN outsize ELSE AlgSize

\* mac->final succeeds unless it checks the buffer (chk) and finds it too small.
FinalOk(h, outsize, chk) == ~(chk /\ outsize < FinalLen(h, outsize))

\* The bytes of a MAC stand for themselves: the key, the data and the length.
MacOf(key, acc, len) == [key |-> key, acc |-> acc, len |-> len]

\* mac->final(d, out, &l, outsize).
final(s, d, outsize, chk) ==
    IF FinalOk(s.heap[d], outsize, chk)
    THEN [Invoke(s, "final") EXCEPT
             !.last.out = MacOf(s.heap[d].key, s.heap[d].acc,
                                FinalLen(s.heap[d], outsize))]
    ELSE Invoke(s, "final")

\* ------------------------------------------------------------- streaming
EVP_MAC_CTX_get_mac_size(s, c, ans) ==
    LET sz == IF ans = "size" THEN AlgSize ELSE 0
    IN  IF s.ctx[c].data # NULL /\ s.meth.get_ctx_params
        THEN Return(Invoke(s, "get_ctx_params"), IF ans # "fail" THEN sz ELSE 0)
        ELSE IF s.ctx[c].data # NULL /\ s.meth.get_params
        THEN Return(Invoke(s, "get_params"), IF ans # "fail" THEN sz ELSE 0)
        ELSE Return(s, 0)

EVP_MAC_init(s, c, key, ok) ==
    Return(init(s, s.ctx[c].data, key, ok), IF ok THEN 1 ELSE 0)

EVP_MAC_update(s, c, b) == Return(update(s, s.ctx[c].data, b), 1)

EVP_MAC_CTX_set_params(s, c, ok) ==
    IF s.meth.set_ctx_params
    THEN Return(set_ctx_params(s, s.ctx[c].data, ok), IF ok THEN 1 ELSE 0)
    ELSE Return(s, 1)

\* mac->get_params(params): the algorithm's defaults.
get_params(s, ans) ==
    IF ans = "size" THEN [Invoke(s, "get_params") EXCEPT
                             !.last.got = [size |-> AlgSize, xof |-> FALSE]]
    ELSE Invoke(s, "get_params")

\* mac->get_ctx_params(d, params): the values of the provider state d.
get_ctx_params(s, d, ans) ==
    IF ans = "size" THEN [Invoke(s, "get_ctx_params") EXCEPT
                             !.last.got = [size |-> AlgSize, xof |-> s.heap[d].xof]]
    ELSE Invoke(s, "get_ctx_params")

\* EVP_MAC_get_params failing when the provider has no handler.
EVP_MAC_get_params_strict(s, ans) ==
    IF s.meth.get_params
    THEN Return(get_params(s, ans), IF ans = "fail" THEN 0 ELSE 1)
    ELSE Return(s, 0)

EVP_MAC_get_params(s, ans) ==
    IF s.meth.get_params
    THEN Return(get_params(s, ans), IF ans = "fail" THEN 0 ELSE 1)
    ELSE Return(s, 1)

EVP_MAC_CTX_get_params(s, c, ans) ==
    IF s.meth.get_ctx_params
    THEN Return(get_ctx_params(s, s.ctx[c].data, ans), IF ans = "fail" THEN 0 ELSE 1)
    ELSE Return(s, 1)

\* FinalProbe asking the provider's final for the length.
FinalProbe_viaFinal(s, c, outlp, ans) ==
    IF ~outlp THEN Return(Raise(s, "PASSED_NULL_PARAMETER"), 0)
    ELSE Return([final(s, s.ctx[c].data, AlgSize, FALSE) EXCEPT
                    !.last.outl = AlgSize, !.last.out = NoOut], 1)

\* evp_mac_final, lines 135-142: no buffer, the length alone is asked for.
FinalProbe(s, c, outlp, ans) ==
    IF ~outlp THEN Return(Raise(s, "PASSED_NULL_PARAMETER"), 0)
    ELSE LET s1 == EVP_MAC_CTX_get_mac_size(s, c, ans)
         IN  Return([s1 EXCEPT !.last.outl = s1.last.res], 1)

\* FinalCompute storing the buffer's size through outl.
FinalCompute_outsize(s, c, outlp, outsize, chk, junk) ==
    Return([final(s, s.ctx[c].data, outsize, chk) EXCEPT
               !.last.outl = IF outlp THEN outsize ELSE Unset],
           IF FinalOk(s.heap[s.ctx[c].data], outsize, chk) THEN 1 ELSE 0)

\* evp_mac_final, lines 152-155: l is stored through outl whatever final
\* returned; junk is the value of l when final did not set it.
FinalCompute(s, c, outlp, outsize, chk, junk) ==
    LET h  == s.heap[s.ctx[c].data]
        ok == FinalOk(h, outsize, chk)
        l  == IF ok THEN FinalLen(h, outsize) ELSE junk
    IN  Return([final(s, s.ctx[c].data, outsize, chk) EXCEPT
                   !.last.outl = IF outlp THEN l ELSE Unset],
               IF ok THEN 1 ELSE 0)

\* FinalSetXof going on whatever EVP_MAC_CTX_set_params returned.
FinalSetXof_ignore(s, c, xof, setOk) ==
    IF xof THEN Return(EVP_MAC_CTX_set_params(s, c, setOk), 1) ELSE Return(s, 1)

\* evp_mac_final, lines 143-151: extendable output is asked for first.
FinalSetXof(s, c, xof, setOk) ==
    IF xof THEN EVP_MAC_CTX_set_params(s, c, setOk) ELSE Return(s, 1)

\* evp_mac_final answering a request for the length before it looks for the
\* provider's final.
evp_mac_final_probefirst(s, c, xof, buf, outlp, outsize, ans, setOk, chk, junk) ==
    IF c = NULL \/ ~s.ctx[c].meth THEN Return(Raise(s, "INVALID_NULL_ALGORITHM"), 0)
    ELSE IF ~buf THEN FinalProbe(s, c, outlp, ans)
    ELSE IF ~s.meth.final THEN Return(Raise(s, "FINAL_ERROR"), 0)
    ELSE LET s1 == FinalSetXof(s, c, xof, setOk)
         IN  IF s1.last.res <= 0 THEN Return(Raise(s1, "SETTING_XOF_FAILED"), 0)
             ELSE FinalCompute(s1, c, outlp, outsize, chk, junk)

evp_mac_final(s, c, xof, buf, outlp, outsize, ans, setOk, chk, junk) ==
    IF c = NULL \/ ~s.ctx[c].meth THEN Return(Raise(s, "INVALID_NULL_ALGORITHM"), 0)
    ELSE IF ~s.meth.final THEN Return(Raise(s, "FINAL_ERROR"), 0)
    ELSE IF ~buf THEN FinalProbe(s, c, outlp, ans)
    ELSE LET s1 == FinalSetXof(s, c, xof, setOk)
         IN  IF s1.last.res <= 0 THEN Return(Raise(s1, "SETTING_XOF_FAILED"), 0)
             ELSE FinalCompute(s1, c, outlp, outsize, chk, junk)

EVP_MAC_final(s, c, buf, outlp, outsize, ans, chk, junk) ==
    evp_mac_final(s, c, FALSE, buf, outlp, outsize, ans, TRUE, chk, junk)

EVP_MAC_finalXOF(s, c, buf, outsize, ans, setOk, chk, junk) ==
    evp_mac_final(s, c, TRUE, buf, FALSE, outsize, ans, setOk, chk, junk)

\* ------------------------------------------------------------- callers
\* The contexts a caller has in hand: returned to it and not freed by it.
Live(s, c)    == s.ctx[c].st = "live" /\ s.ctx[c].handle
LiveCtxs(s)   == {c \in CtxIds : Live(s, c)}
Mine(s, t)    == {c \in LiveCtxs(s) : s.ctx[c].owner = t}
\* Handles a caller still has in hand although it freed them.
Stale(s, t)   == {c \in CtxIds : s.ctx[c].st = "freed" /\ s.ctx[c].handle
                                 /\ s.ctx[c].owner = t}
\* A caller may pass the descriptor to the engine while it holds a reference to
\* it: one it acquired itself, or the one of a context of its own.
Holds(s, t)   == s.acq[t] > 0 \/ Mine(s, t) # {}
Running(s)    == ~s.crashed

RECURSIVE SumAcq(_, _)
SumAcq(f, S) == IF S = {} THEN 0
                ELSE LET t == CHOOSE x \in S : TRUE IN f[t] + SumAcq(f, S \ {t})

\* A holder of the descriptor takes one more reference (EVP_MAC_up_ref).
Acquire(t) ==
    /\ Running(Cur) /\ Holds(Cur, t) /\ incs < MaxIncs
    /\ \E ok \in BOOLEAN :
         LET s1 == EVP_MAC_up_ref(Begin(Cur, "up_ref", NULL), ok)
         IN  Becomes(Return([s1 EXCEPT !.acq[t] = IF ok THEN @ + 1 ELSE @],
                            IF ok THEN 1 ELSE 0))
    /\ UNCHANGED <<pc, loc>>

\* A caller gives back a reference it acquired (EVP_MAC_free).
Release(t) ==
    /\ Running(Cur) /\ acq[t] > 0
    /\ Becomes([EVP_MAC_free(Begin(Cur, "release", NULL)) EXCEPT !.acq[t] = @ - 1])
    /\ UNCHANGED <<pc, loc>>

CtxNew(t) ==
    /\ Running(Cur) /\ Holds(Cur, t) /\ HasCtx(Cur) /\ HasData(Cur)
    /\ \E allocOk, newOk, upOk \in BOOLEAN :
         Becomes(EVP_MAC_CTX_new(Begin(Cur, "new", NULL), t, allocOk, newOk, upOk))
    /\ UNCHANGED <<pc, loc>>

CtxDup(t) ==
    /\ Running(Cur) /\ HasCtx(Cur) /\ HasData(Cur)
    /\ \E src \in Mine(Cur, t), allocOk, upOk, dupOk \in BOOLEAN, ub \in {"crash", "null"} :
         Becomes(EVP_MAC_CTX_dup(Begin(Cur, "dup", src), t, src, allocOk, upOk, dupOk, ub))
    /\ UNCHANGED <<pc, loc>>

CtxFree(t) ==
    /\ Running(Cur)
    /\ \E c \in Mine(Cur, t) : Becomes(EVP_MAC_CTX_free(Begin(Cur, "free", c), c))
    /\ UNCHANGED <<pc, loc>>

\* EVP_MAC_CTX_free(NULL) needs no descriptor and no context.
CtxFreeNull ==
    /\ Running(Cur)
    /\ Becomes(EVP_MAC_CTX_free(Begin(Cur, "free", NULL), NULL))
    /\ UNCHANGED <<pc, loc>>

\* A context takes a key once, then data, and is finalised once: the callers
\* keep to that order.
Keyed(s, c)     == s.ctx[c].fed.key # 0
Finalised(s, c) == s.ctx[c].fin
Open(s, t)      == {c \in Mine(s, t) : Keyed(s, c) /\ ~Finalised(s, c)}

BeginFinal(s, op, c, i) ==
    [Begin(s, op, c) EXCEPT !.last.buf = i.buf, !.last.outlp = i.outlp,
                            !.last.outsize = i.outsize, !.last.ans = i.ans,
                            !.last.setOk = i.setOk]

\* A finalisation that stored a MAC ends the context's computation.
Stored(s, c) ==
    IF c # NULL /\ s.last.res = 1 /\ s.last.out # NoOut
    THEN [s EXCEPT !.ctx[c].fin = TRUE] ELSE s

MacInit(t) ==
    /\ Running(Cur)
    /\ \E c \in Mine(Cur, t), key \in Keys, ok \in BOOLEAN :
         /\ ~Keyed(Cur, c)
         /\ LET s1 == EVP_MAC_init(Begin(Cur, "init", c), c, key, ok)
            IN  Becomes(IF ok THEN [s1 EXCEPT !.ctx[c].fed = [key |-> key, acc |-> <<>>]]
                        ELSE s1)
    /\ UNCHANGED <<pc, loc>>

MacUpdate(t) ==
    /\ Running(Cur)
    /\ \E c \in Open(Cur, t), b \in Bytes :
         /\ Len(ctx[c].fed.acc) < MaxAcc
         /\ Becomes([EVP_MAC_update(Begin(Cur, "update", c), c, b) EXCEPT
                        !.ctx[c].fed.acc = Append(@, b)])
    /\ UNCHANGED <<pc, loc>>

MacSize(t) ==
    /\ Running(Cur)
    /\ \E c \in Mine(Cur, t), ans \in Answers :
         LET s1 == EVP_MAC_CTX_get_mac_size([Begin(Cur, "get_mac_size", c) EXCEPT
                                                !.last.ans = ans], c, ans)
         IN  Becomes(IF Keyed(Cur, c) THEN [s1 EXCEPT !.ctx[c].size = s1.last.res]
                     ELSE s1)
    /\ UNCHANGED <<pc, loc>>

\* What a finalisation call is given, and what the provider does during it.
\* Inputs the call never reads are left at one value.
FinalInputs ==
    {i \in [buf : BOOLEAN, outlp : BOOLEAN, outsize : OutSizes, ans : Answers,
            setOk : BOOLEAN, chk : BOOLEAN, junk : {AlgSize - 1, MaxOut}] :
        /\ i.buf => i.ans = "size"
        /\ ~i.buf => i.outsize = MaxOut /\ ~i.chk /\ i.setOk
        /\ ~i.outlp => i.ans = "size"
        /\ ~(i.chk /\ i.outsize < AlgSize) => i.junk = MaxOut}

MacFinal(t) ==
    /\ Running(Cur)
    /\ \E c \in Open(Cur, t) \cup {NULL}, i \in FinalInputs :
         /\ i.setOk
         /\ c = NULL => ~i.buf /\ i.outlp /\ i.ans = "size"
         /\ Becomes(Stored(EVP_MAC_final(BeginFinal(Cur, "final", c, i), c, i.buf,
                                         i.outlp, i.outsize, i.ans, i.chk, i.junk), c))
    /\ UNCHANGED <<pc, loc>>

MacFinalXOF(t) ==
    /\ Running(Cur)
    /\ \E c \in Open(Cur, t), i \in FinalInputs :
         /\ ~i.outlp
         /\ meth.xof => i.setOk
         /\ Becomes(Stored(EVP_MAC_finalXOF(BeginFinal(Cur, "finalXOF", c, i), c, i.buf,
                                            i.outsize, i.ans, i.setOk, i.chk, i.junk), c))
    /\ UNCHANGED <<pc, loc>>

\* The parameter calls, as a caller makes them directly; the parameter it sets
\* is the extendable-output flag.
MacGetParams(t) ==
    /\ Running(Cur) /\ Holds(Cur, t)
    /\ \E ans \in Answers :
         Becomes(EVP_MAC_get_params([Begin(Cur, "get_params", NULL) EXCEPT
                                        !.last.ans = ans], ans))
    /\ UNCHANGED <<pc, loc>>

MacCtxGetParams(t) ==
    /\ Running(Cur)
    /\ \E c \in Mine(Cur, t), ans \in Answers :
         Becomes(EVP_MAC_CTX_get_params([Begin(Cur, "ctx_get_params", c) EXCEPT
                                            !.last.ans = ans], c, ans))
    /\ UNCHANGED <<pc, loc>>

MacCtxSetParams(t) ==
    /\ Running(Cur)
    /\ \E c \in Mine(Cur, t), ok \in BOOLEAN :
         Becomes(EVP_MAC_CTX_set_params([Begin(Cur, "ctx_set_params", c) EXCEPT
                                            !.last.setOk = ok], c, ok))
    /\ UNCHANGED <<pc, loc>>

\* The streaming specification makes at most MaxMacCtx contexts, and in it
\* no allocation and no reference increment fails (those are Spec's subject).
MacRoom(s) == Cardinality({c \in CtxIds : s.ctx[c].st # "unused"}) < MaxMacCtx

\* A caller that works with one context at a time.
MacCtxOne(t) ==
    /\ Running(Cur) /\ Holds(Cur, t) /\ MacRoom(Cur) /\ LiveCtxs(Cur) = {}
    /\ Becomes(EVP_MAC_CTX_new(Begin(Cur, "new", NULL), t, TRUE, TRUE, TRUE))
    /\ UNCHANGED <<pc, loc>>

MacCtxNew(t) ==
    /\ Running(Cur) /\ Holds(Cur, t) /\ MacRoom(Cur)
    /\ Becomes(EVP_MAC_CTX_new(Begin(Cur, "new", NULL), t, TRUE, TRUE, TRUE))
    /\ UNCHANGED <<pc, loc>>

MacCtxDup(t) ==
    /\ Running(Cur) /\ MacRoom(Cur)
    /\ \E src \in Mine(Cur, t), dupOk \in BOOLEAN :
         Becomes(EVP_MAC_CTX_dup(Begin(Cur, "dup", src), t, src, TRUE, TRUE, dupOk, "null"))
    /\ UNCHANGED <<pc, loc>>

\* EVP_MAC_CTX_free on a handle that was freed before: the object's memory was
\* given back, so every read of it is undefined.  Either the process dies at
\* once, or the stale bytes are still there (meth as bound, data NULL as line 45
\* left it) and lines 44-48 run on them.
CtxFreeAgain(t) ==
    /\ Running(Cur) /\ again < MaxAgain
    /\ \E c \in Stale(Cur, t), ub \in {"crash", "stale"} :
         LET s0 == [Begin(Cur, "free", c) EXCEPT !.again = @ + 1]
         IN  Becomes(IF ub = "crash" THEN [s0 EXCEPT !.crashed = TRUE]
                     ELSE EVP_MAC_CTX_free(s0, c))
    /\ UNCHANGED <<pc, loc>>

\* ------------------------------------------------------------- threads
\* The same functions, called by several threads, each on contexts of its own.
\* A thread takes one step per access to the descriptor's reference count;
\* what it does to objects only it can reach goes with the step before.
\* loc: the context the call works on, the value its decrement observed.
NoLoc == [c |-> NULL, src |-> NULL, ref |-> 0]

Idle(t) == Running(Cur) /\ pc[t] = "idle"

\* One step of thread t: it moves to position p with locals l, the program
\* state becomes s (no caller reads last here).
Step(t, p, l, s) ==
    /\ Becomes([s EXCEPT !.last = Call("step", NULL)])
    /\ pc' = [pc EXCEPT ![t] = p]
    /\ loc' = [loc EXCEPT ![t] = l]

\* EVP_MAC_up_ref by a thread that holds the descriptor.
T_Acquire(t) ==
    /\ Idle(t) /\ Holds(Cur, t) /\ incs < MaxIncs
    /\ \E ok \in BOOLEAN :
         Step(t, "idle", NoLoc,
              [EVP_MAC_up_ref(Cur, ok) EXCEPT !.acq[t] = IF ok THEN @ + 1 ELSE @])

\* EVP_MAC_free of a reference the thread acquired: the decrement.
T_Release(t) ==
    /\ Idle(t) /\ acq[t] > 0
    /\ Step(t, "tear", [NoLoc EXCEPT !.ref = DownRef(Cur)],
            [DownRefStep(Cur) EXCEPT !.acq[t] = @ - 1])

\* EVP_MAC_CTX_new up to the reference increment (lines 24-27).
T_NewAlloc(t) ==
    /\ Idle(t) /\ Holds(Cur, t) /\ HasCtx(Cur) /\ HasData(Cur)
    /\ \E allocOk, newOk \in BOOLEAN :
         IF ~allocOk THEN Step(t, "idle", NoLoc, Cur)
         ELSE IF ~newOk
         THEN Step(t, "idle", NoLoc, CtxNewFail(CtxNewAlloc(Cur, t, FALSE), FreshCtx(Cur)))
         ELSE Step(t, "new_ref", [NoLoc EXCEPT !.c = FreshCtx(Cur)],
                   CtxNewAlloc(Cur, t, TRUE))

\* EVP_MAC_CTX_new from the reference increment on (lines 28-37).
T_NewRef(t) ==
    /\ Running(Cur) /\ pc[t] = "new_ref"
    /\ \E upOk \in BOOLEAN : Step(t, "idle", NoLoc, CtxNewRef(Cur, loc[t].c, upOk))

\* EVP_MAC_CTX_free giving up the context's reference before it destroys the
\* provider state.
T_FreeData_decfirst(t) ==
    /\ Idle(t)
    /\ \E c \in Mine(Cur, t) :
         Step(t, "idle", NoLoc, OPENSSL_free(CtxFreeData(EVP_MAC_free(Cur), c), c))

\* EVP_MAC_CTX_free up to the decrement (lines 42-45).
T_FreeData(t) ==
    /\ Idle(t)
    /\ \E c \in Mine(Cur, t) :
         Step(t, "free_dec", [NoLoc EXCEPT !.c = c], CtxFreeData(Cur, c))

\* EVP_MAC_CTX_free, line 47: the decrement of EVP_MAC_free.
T_FreeDec(t) ==
    /\ Running(Cur) /\ pc[t] = "free_dec"
    /\ Step(t, "tear", [loc[t] EXCEPT !.ref = DownRef(Cur)], DownRefStep(Cur))

\* The rest of EVP_MAC_free, and line 48 when a context is being freed.
T_Tear(t) ==
    /\ Running(Cur) /\ pc[t] = "tear"
    /\ Step(t, "idle", NoLoc,
            IF loc[t].c = NULL THEN Teardown(Cur, loc[t].ref)
            ELSE OPENSSL_free(Teardown(Cur, loc[t].ref), loc[t].c))

\* EVP_MAC_CTX_dup up to the reference increment (lines 55-64).
T_DupAlloc(t) ==
    /\ Idle(t) /\ HasCtx(Cur) /\ HasData(Cur)
    /\ \E src \in Mine(Cur, t), allocOk \in BOOLEAN :
         IF ~allocOk THEN Step(t, "idle", NoLoc, Cur)
         ELSE Step(t, "dup_ref", [NoLoc EXCEPT !.c = FreshCtx(Cur), !.src = src],
                   CtxDupAlloc(Cur, t, src))

\* EVP_MAC_CTX_dup, lines 65-69: the reference increment.
T_DupRef(t) ==
    /\ Running(Cur) /\ pc[t] = "dup_ref"
    /\ \E upOk \in BOOLEAN :
         Step(t, IF upOk THEN "dup_data" ELSE "idle", IF upOk THEN loc[t] ELSE NoLoc,
              CtxDupRef(Cur, loc[t].c, upOk))

\* EVP_MAC_CTX_dup, lines 71-77; a failed copy goes on into EVP_MAC_CTX_free.
T_DupData(t) ==
    /\ Running(Cur) /\ pc[t] = "dup_data"
    /\ \E dupOk \in BOOLEAN :
         LET s1 == CtxDupData(Cur, loc[t].src, loc[t].c, dupOk, "null")
         IN  IF s1.ctx[loc[t].c].data = NULL
             THEN Step(t, "free_dec", loc[t], CtxFreeData(s1, loc[t].c))
             ELSE Step(t, "idle", NoLoc, CtxDupEnd(s1, loc[t].c))

\* The contexts a thread has in hand and is not in the middle of freeing.
InUse(c) ==
    /\ Live(Cur, c)
    /\ \A t \in Threads : ~(pc[t] \in {"free_dec", "tear"} /\ loc[t].c = c)

\* ------------------------------------------------------------- scope CLI
\* cli/cmd/util.go.  A string is the sequence of its pieces; "" is <<>>.
Str(w)  == <<w>>
Flag(w) == <<"-", "-", w>>

\* The arguments a command line is made of.
ArgWords == {Flag("passthrough"), Flag("help"), Flag("cribldest"), Flag("eventdest"),
             Flag("verbosity"), <<"-", "v">>, <<"-", "-">>, Str("ls")}

RECURSIVE SeqsUpTo(_, _)
SeqsUpTo(S, n) ==
    IF n = 0 THEN {<<>>}
    ELSE LET R == SeqsUpTo(S, n - 1)
         IN  R \cup {Append(q, x) : q \in R, x \in S}

CommandLines == SeqsUpTo(ArgWords, MaxArgs)

\* Nothing checked yet.
NoErr  == <<>>
NoCli  == [args |-> <<>>, flags |-> <<>>, err |-> NoErr]

\* A Go map[string]int: nil, or its keys.
NilMap     == [nil |-> TRUE, keys |-> {}]
MapOf(K)   == [nil |-> FALSE, keys |-> K]

\* var IncompatibleFlags.
IncompatibleFlags ==
    (Str("cribldest") :> MapOf({Str("eventdest"), Str("metricsdest")}))
    @@ (Str("metricsdest") :> MapOf({Str("cribldest")}))
    @@ (Str("eventdest") :> MapOf({Str("cribldest")}))
    @@ (Str("userconfig") :> MapOf({Str("metricsdest"), Str("eventsdest"),
                                    Str("cribldest"), Str("loglevel")}))
    @@ (Str("passthrough") :> NilMap)
    @@ (Str("help") :> NilMap)

\* strings.HasPrefix(arg, "--") and strings.Replace(arg, "--", "", 1) of an
\* argument that has the prefix.
HasPrefix(arg) == Len(arg) >= 2 /\ arg[1] = "-" /\ arg[2] = "-"
StripDashes(arg) == SubSeq(arg, 3, Len(arg))

\* getFlags: rv starts as len(args) empty strings and the flags are appended.
getFlags(args) ==
    [i \in 1..Len(args) |-> <<>>]
    \o [i \in 1..Len(SelectSeq(args, HasPrefix)) |->
            StripDashes(SelectSeq(args, HasPrefix)[i])]

\* The inner loop of checkIncompatibleFlags from position j on: the first
\* flag that is a key of incompatible.
RECURSIVE FirstClash(_, _, _, _)
FirstClash(flags, fl, incompatible, j) ==
    IF j > Len(flags) THEN NoErr
    ELSE IF flags[j] \in incompatible.keys THEN <<"with", fl, flags[j]>>
    ELSE FirstClash(flags, fl, incompatible, j + 1)

\* checkIncompatibleFlags from position i on.
RECURSIVE CheckFrom(_, _)
CheckFrom(flags, i) ==
    IF i > Len(flags) THEN NoErr
    ELSE IF flags[i] \notin DOMAIN IncompatibleFlags THEN CheckFrom(flags, i + 1)
    ELSE IF IncompatibleFlags[flags[i]].nil THEN <<"with other flags", flags[i]>>
    ELSE LET e == FirstClash(flags, flags[i], IncompatibleFlags[flags[i]], 1)
         IN  IF e # NoErr THEN e ELSE CheckFrom(flags, i + 1)

checkIncompatibleFlags(flags) == CheckFrom(flags, 1)

\* A command is run: the flags of its command line are checked.
RunCmd ==
    /\ \E args \in CommandLines :
         cli' = [args |-> args, flags |-> getFlags(args),
                 err |-> checkIncompatibleFlags(getFlags(args))]
    /\ UNCHANGED <<meth, refcnt, torn, incs, decs, acq, ctx, heap, nfree, last,
                   crashed, again, pc, loc>>

\* ------------------------------------------------------------- specification
\* The optional entries of the operation table (TRUE: not NULL), and xof: the
\* algorithm can produce extendable output, which it is asked for through its
\* set_ctx_params.
Tables == {m \in [dupctx : BOOLEAN, final : BOOLEAN, get_params : BOOLEAN,
                  get_ctx_params : BOOLEAN, set_ctx_params : BOOLEAN, xof : BOOLEAN] :
              m.xof => m.set_ctx_params}

\* A descriptor just fetched by the threads A: its references are theirs.
InitWith(T, A) ==
    /\ meth \in T
    /\ refcnt = Cardinality(A) /\ torn = 0 /\ incs = Cardinality(A) /\ decs = 0
    /\ acq = [t \in Threads |-> IF t \in A THEN 1 ELSE 0]
    /\ ctx = [c \in CtxIds |-> NoCtx]
    /\ heap = [d \in DataIds |-> NoData]
    /\ nfree = [d \in 0..MaxData |-> 0]
    /\ last = Call("fetch", NULL)
    /\ crashed = FALSE
    /\ again = 0
    /\ pc = [t \in Threads |-> "idle"]
    /\ loc = [t \in Threads |-> NoLoc]
    /\ cli = NoCli

Init == InitWith({m \in Tables : m.final /\ m.get_params /\ m.get_ctx_params
                                 /\ m.set_ctx_params /\ ~m.xof}, {1})

Next ==
    \/ Acquire(1)
    \/ Release(1)
    \/ CtxNew(1)
    \/ CtxDup(1)
    \/ CtxFree(1)
    \/ CtxFreeNull

Spec == Init /\ [][Next]_vars

\* A caller computing MACs with one context at a time, over every operation
\* table (the duplicator, which it does not use, is present).
InitMac == InitWith({m \in Tables : m.dupctx}, {1})

NextMac ==
    \/ MacCtxOne(1)
    \/ CtxFree(1)
    \/ MacInit(1)
    \/ MacUpdate(1)
    \/ MacSize(1)
    \/ MacFinal(1)
    \/ MacFinalXOF(1)

SpecMac == InitMac /\ [][NextMac]_vars

\* A caller that negotiates parameters on one context at a time, over every
\* operation table.
NextParam ==
    \/ MacCtxOne(1)
    \/ CtxFree(1)
    \/ MacInit(1)
    \/ MacUpdate(1)
    \/ MacGetParams(1)
    \/ MacCtxGetParams(1)
    \/ MacCtxSetParams(1)

SpecParam == InitMac /\ [][NextParam]_vars

\* The scope CLI checking command lines.
NextCli == RunCmd

SpecCli == Init /\ [][NextCli]_vars

\* A caller that checkpoints a computation: contexts of a fixed-length
\* algorithm with a complete operation table, created, duplicated, fed and
\* finalised side by side.
InitDup == InitWith({m \in Tables : m.dupctx /\ m.final /\ m.get_params
                                    /\ m.get_ctx_params /\ m.set_ctx_params /\ ~m.xof}, {1})

NextDup ==
    \/ MacCtxNew(1)
    \/ MacCtxDup(1)
    \/ CtxFree(1)
    \/ MacInit(1)
    \/ MacUpdate(1)
    \/ MacFinal(1)

SpecDup == InitDup /\ [][NextDup]_vars

\* Threads that each fetched the descriptor, with a complete operation table.
InitConc == InitWith({m \in Tables : m.dupctx /\ m.final /\ m.get_params
                                     /\ m.get_ctx_params /\ m.set_ctx_params /\ ~m.xof},
                     Threads)

NextConc ==
    \E t \in Threads :
        \/ T_Acquire(t)
        \/ T_Release(t)
        \/ T_NewAlloc(t)
        \/ T_NewRef(t)
        \/ T_FreeData(t)
        \/ T_FreeDec(t)
        \/ T_Tear(t)
        \/ T_DupAlloc(t)
        \/ T_DupRef(t)
        \/ T_DupData(t)

SpecConc == InitConc /\ [][NextConc]_vars

\* The same callers, one of which also frees a handle it freed before.
NextMisuse ==
    \/ Next
    \/ CtxFreeAgain(1)

SpecMisuse == Init /\ [][NextMisuse]_vars

\* ------------------------------------------------------------- properties
Range(q) == {q[i] : i \in 1..Len(q)}
Quiet(e) ==
    /\ ~crashed
    /\ last.err = e
    /\ last.calls = <<>>
    /\ refcnt = last.pre

\* C1: while the process runs, the descriptor's reference count is the number
\* of references callers acquired and have not released plus the number of
\* contexts callers have in hand, whatever calls succeeded or failed before.
C1_RefcountAccounts ==
    Running(Cur) => refcnt = SumAcq(acq, Threads) + Cardinality(LiveCtxs(Cur))

\* C1 witness: a duplicate failed in the provider (its copy went through
\* EVP_MAC_CTX_free) while two contexts and one caller reference are held.
C1_Witness ==
    /\ last.op = "dup" /\ last.res = NULL /\ last.calls = <<"dupctx", "freectx">>
    /\ ~crashed /\ Cardinality(LiveCtxs(Cur)) = 2 /\ SumAcq(acq, Threads) = 1

\* C3: the reference count is never negative, and no more decrements were made
\* than successful increments.
C3_NeverNegative == refcnt >= 0 /\ decs <= incs

\* C3 witness: every reference taken, the contexts' included, was given back.
C3_Witness == torn = 1 /\ decs = incs /\ decs >= 3 /\ last.op = "free"

C5_NoSharedState ==
    Running(Cur) =>
      /\ \A c, d \in LiveCtxs(Cur) : c # d => ctx[c].data # ctx[d].data
      /\ \A c \in LiveCtxs(Cur) : ctx[c].data # NULL /\ heap[ctx[c].data].st = "alive"
      /\ (last.op = "dup" /\ last.res # NULL) =>
            /\ "dupctx" \in Range(last.calls)
            /\ ctx[last.res].data # ctx[last.arg].data
      /\ (last.op = "dup" /\ last.res = NULL) =>
            /\ Live(Cur, last.arg)
            /\ nfree[ctx[last.arg].data] = 0

\* C5 witness: a duplicate succeeded after an earlier one failed in the provider.
C5_Witness ==
    /\ last.op = "dup" /\ last.res # NULL /\ Live(Cur, last.arg) /\ Live(Cur, last.res)
    /\ nfree[NULL] > 0

\* What a caller sees of a duplicate that ran out of resources: NULL with the
\* allocation error (lines 60, 66), or NULL alone (dupctx returned NULL, line 74).
ExhaustionOutcomes == {<<NULL, "MALLOC_FAILURE">>, <<NULL, "none">>}

\* C7: a duplicate on a descriptor without a duplicator that did not run out
\* of memory ends in an outcome other than those of resource exhaustion,
\* without the process dying and without a call through the absent entry.
C7_NoDuplicatorUnsupported ==
    (last.op = "dup" /\ ~meth.dupctx /\ last.err # "MALLOC_FAILURE") =>
      /\ ~crashed
      /\ "dupctx" \notin Range(last.calls)
      /\ <<last.res, last.err>> \notin ExhaustionOutcomes

\* C6: the provider state of every context in hand holds exactly the key and
\* the chunks passed through that context, whatever was passed through any
\* other; a finalisation stores the MAC of them, and another context's
\* finalisation would store the same bytes exactly if it was fed the same.
C6_DupIndependent ==
    /\ \A c \in LiveCtxs(Cur) :
          /\ heap[ctx[c].data].key = ctx[c].fed.key
          /\ heap[ctx[c].data].acc = ctx[c].fed.acc
    /\ (last.op = "final" /\ last.arg # NULL /\ last.buf /\ last.res = 1) =>
          /\ last.out = MacOf(ctx[last.arg].fed.key, ctx[last.arg].fed.acc, AlgSize)
          /\ \A d \in LiveCtxs(Cur) :
                (MacOf(heap[ctx[d].data].key, heap[ctx[d].data].acc, AlgSize) = last.out)
                   <=> (ctx[d].fed = ctx[last.arg].fed)

\* C6 witness: a context was duplicated after one update, the two were fed a
\* different second chunk, and both were finalised.
C6_Witness ==
    /\ last.op = "final" /\ last.arg # NULL /\ last.buf /\ last.res = 1
    /\ \E d \in LiveCtxs(Cur) :
          /\ ctx[d].from = last.arg /\ ctx[d].fin
          /\ Len(ctx[d].fed.acc) = 2 /\ Len(ctx[last.arg].fed.acc) = 2
          /\ ctx[d].fed.acc[1] = ctx[last.arg].fed.acc[1]
          /\ ctx[d].fed.acc[2] # ctx[last.arg].fed.acc[2]

\* C8: a finalisation without a buffer but with a length pointer, on a context
\* whose provider has a finalizer, succeeds, stores the length
\* EVP_MAC_CTX_get_mac_size returns, invokes neither the provider's final nor
\* its set_ctx_params and leaves the provider state as it was; and a
\* finalisation into a buffer stores the MAC of the key and data passed
\* through the context.
C8_ProbeFrame ==
    /\ (last.op = "final" /\ last.arg # NULL /\ meth.final /\ ~last.buf /\ last.outlp) =>
          /\ last.res = 1
          /\ last.outl = EVP_MAC_CTX_get_mac_size(Cur, last.arg, last.ans).last.res
          /\ "final" \notin Range(last.calls)
          /\ "set_ctx_params" \notin Range(last.calls)
          /\ heap[ctx[last.arg].data] = last.snap
          /\ ~ctx[last.arg].fin
    /\ (last.op = "final" /\ last.arg # NULL /\ last.buf /\ last.res = 1) =>
          last.out = MacOf(ctx[last.arg].fed.key, ctx[last.arg].fed.acc, AlgSize)

\* C8 witness: the length was asked of a context with a key and data, and
\* the provider reported it.
C8_Witness ==
    /\ last.op = "final" /\ last.arg # NULL /\ ~last.buf /\ last.outlp
    /\ last.res = 1 /\ last.outl = AlgSize /\ Len(ctx[last.arg].fed.acc) = MaxAcc

\* C9: a finalisation into a buffer smaller than the declared length fails
\* and stores no length.
C9_SmallBufferRejected ==
    (last.op = "final" /\ last.arg # NULL /\ meth.final /\ last.buf
       /\ last.outsize < AlgSize) =>
      /\ last.res = 0
      /\ last.outl = Unset

\* C10: EVP_MAC_finalXOF into a buffer fails without reaching the provider's
\* final when the algorithm has no extendable output, and stores exactly
\* outsize bytes when it has.
C10_XofOnlyWhenCapable ==
    (last.op = "finalXOF" /\ meth.final /\ last.buf) =>
      IF meth.xof THEN last.res = 1 /\ last.out.len = last.outsize
      ELSE last.res = 0 /\ "final" \notin Range(last.calls)

\* C2: in every interleaving the descriptor is torn down at most once, and
\* only when the count is zero with every increment matched by a decrement;
\* while a thread has a context in use, or holds the descriptor at all, it is
\* not torn down.
C2_TeardownOnce ==
    /\ torn <= 1
    /\ torn = 1 => refcnt = 0 /\ decs = incs
    /\ (\E c \in CtxIds : InUse(c)) => torn = 0
    /\ \A t \in Threads : Holds(Cur, t) /\ pc[t] = "idle" => torn = 0
    /\ \A t \in Threads : pc[t] = "tear" /\ LastRef(loc[t].ref) => refcnt = 0

\* C2 witness: the descriptor was torn down after every thread had made a
\* context, one of them by duplication, and freed its contexts.
C2_Witness ==
    /\ torn = 1
    /\ \A t \in Threads :
          \E c \in CtxIds : ctx[c].st = "freed" /\ ctx[c].handle /\ ctx[c].owner = t
    /\ Cardinality({c \in CtxIds : ctx[c].st = "freed" /\ ctx[c].handle}) = MaxCtx

\* The provider's set_ctx_params rejected the extendable-output parameter
\* during the last call, an EVP_MAC_finalXOF into a buffer.
XofRejected ==
    /\ last.op = "finalXOF" /\ last.buf /\ meth.final
    /\ meth.set_ctx_params /\ ~last.setOk

\* C11: when the provider's set_ctx_params rejects the extendable-output
\* parameter, EVP_MAC_finalXOF fails having invoked set_ctx_params alone, the
\* provider state and the context are as before the call, and an
\* EVP_MAC_final into a large enough buffer that follows on the same context
\* succeeds and stores the MAC of the key and data passed through it.
C11_XofRejectedFailsFast ==
    [][/\ XofRejected' =>
            /\ last'.res = 0
            /\ last'.calls = <<"set_ctx_params">>
            /\ last'.out = NoOut
            /\ heap'[ctx'[last'.arg].data] = last'.snap
            /\ ~ctx'[last'.arg].fin
            /\ ctx'[last'.arg].st = "live" /\ ctx'[last'.arg].handle
       /\ (XofRejected /\ last'.op = "final" /\ last'.arg = last.arg
              /\ last'.buf /\ last'.outsize >= AlgSize) =>
            /\ last'.res = 1
            /\ last'.calls = <<"final">>
            /\ last'.out = MacOf(ctx[last.arg].fed.key, ctx[last.arg].fed.acc, AlgSize)
      ]_vars

\* C11 witness: the parameter was rejected on a context with a key and data.
C11_Witness ==
    XofRejected /\ last.res = 0 /\ Len(ctx[last.arg].fed.acc) = MaxAcc

\* The last call was a parameter call for which the provider has no handler.
NoHandler(l) ==
    \/ l.op = "get_params" /\ ~meth.get_params
    \/ l.op = "ctx_get_params" /\ ~meth.get_ctx_params
    \/ l.op = "ctx_set_params" /\ ~meth.set_ctx_params

\* What EVP_MAC_CTX_get_params stores for the context c when the handler
\* answers ans.
GotAt(c, ans) ==
    EVP_MAC_CTX_get_params(Begin(Cur, "ctx_get_params", c), c, ans).last.got

\* C12: EVP_MAC_get_params, EVP_MAC_CTX_get_params and EVP_MAC_CTX_set_params
\* return 1 when the provider has no handler for the call, invoke nothing,
\* store nothing and change neither the descriptor nor any context or provider
\* state; so whatever answer a get handler gives, EVP_MAC_CTX_get_params
\* stores the same values after such a set as before it.
C12_NoHandlerVacuous ==
    [][NoHandler(last') =>
          /\ last'.res = 1
          /\ last'.err = "none"
          /\ last'.calls = <<>>
          /\ last'.got = NoParams
          /\ UNCHANGED <<meth, refcnt, torn, incs, decs, acq, ctx, heap, nfree, crashed>>
          /\ last'.op = "ctx_set_params" =>
                \A ans \in Answers : \E c \in {last'.arg} : GotAt(c, ans)' = GotAt(c, ans)
      ]_vars

\* C12 witness: the flag was set on a keyed context of a provider that has a
\* get handler for contexts and no set handler.
C12_Witness ==
    /\ last.op = "ctx_set_params" /\ ~meth.set_ctx_params /\ meth.get_ctx_params
    /\ last.res = 1 /\ Keyed(Cur, last.arg)

\* The context-level handler stored a size during the last call.
CtxLevelSize == meth.get_ctx_params /\ last.ans = "size"

\* C13: EVP_MAC_CTX_get_mac_size returns the size the context-level handler
\* stores when it stores one; whenever it stores none (there is no such
\* handler, or it stores nothing, or it fails) the algorithm-level handler, if
\* there is one, is asked and what it stores is returned; 0 is returned only
\* when no handler stored a size.
C13_SizeFallsBack ==
    (last.op = "get_mac_size" /\ ctx[last.arg].data # NULL) =>
      /\ CtxLevelSize => last.res = AlgSize
      /\ (~CtxLevelSize /\ meth.get_params) =>
            /\ "get_params" \in Range(last.calls)
            /\ last.res = IF last.ans = "size" THEN AlgSize ELSE 0
      /\ last.res = 0 => ~CtxLevelSize /\ (meth.get_params => last.ans # "size")

\* The last call was an EVP_MAC_final into a buffer of at least the declared
\* length, with a length pointer, on a context with a finalizer whose size
\* was asked for after it got its key.
SizedFinal ==
    /\ last.op = "final" /\ last.arg # NULL /\ meth.final
    /\ last.buf /\ last.outlp /\ last.outsize >= AlgSize
    /\ ctx[last.arg].size # Unset

\* C14 as claimed: for every operation table with a finalizer, init, updates
\* and EVP_MAC_final into a buffer succeed and store through outl the value
\* EVP_MAC_CTX_get_mac_size returned after init.
C14_LengthIsOutputSize ==
    SizedFinal => last.res = 1 /\ last.outl = ctx[last.arg].size

\* C14 as amended: the same, when EVP_MAC_CTX_get_mac_size returned a size
\* (not 0) after init; and the stored length is always the declared one.
C14_LengthIsReportedSize ==
    SizedFinal =>
      /\ last.res = 1
      /\ last.outl = AlgSize
      /\ ctx[last.arg].size # 0 => last.outl = ctx[last.arg].size

\* C14 witness: a context was given a key, its size was reported, it was fed
\* data and finalised into a buffer larger than the declared length.
C14_Witness ==
    /\ SizedFinal /\ last.res = 1 /\ ctx[last.arg].size = AlgSize
    /\ Len(ctx[last.arg].fed.acc) = MaxAcc /\ last.outsize > AlgSize

\* The errors evp_mac_final raises for other reasons than a missing finalizer.
OtherFinalErrors == {"INVALID_NULL_ALGORITHM", "PASSED_NULL_PARAMETER", "SETTING_XOF_FAILED"}

\* C15: EVP_MAC_final and EVP_MAC_finalXOF on a context whose provider has no
\* final fail with FINAL_ERROR, an error raised for nothing else, with or
\* without an output buffer; no provider operation is invoked (no
\* set_ctx_params, no size request), nothing is stored, and the descriptor,
\* the contexts and the provider states are as before the call.
C15_NoFinalizerUnsupported ==
    [][(last'.op \in {"final", "finalXOF"} /\ last'.arg # NULL /\ ~meth.final) =>
          /\ last'.res = 0
          /\ last'.err = "FINAL_ERROR"
          /\ last'.err \notin OtherFinalErrors
          /\ last'.calls = <<>>
          /\ last'.outl = Unset /\ last'.out = NoOut
          /\ UNCHANGED <<meth, refcnt, torn, incs, decs, acq, ctx, heap, nfree, crashed>>
      ]_vars

\* C15 witness: the length alone was asked of a context with a key and data
\* whose provider has no final but has a size handler.
C15_Witness ==
    /\ last.op = "final" /\ last.arg # NULL /\ ~meth.final /\ meth.get_ctx_params
    /\ ~last.buf /\ last.outlp /\ last.res = 0
    /\ Len(ctx[last.arg].fed.acc) = MaxAcc

\* The provider states a step produced.
Produced == {d \in DataIds : heap[d].st = "unalloc" /\ heap'[d].st # "unalloc"}

\* C16: an EVP_MAC_CTX_new that fails (no memory, newctx returning NULL, or
\* the reference increment failing) returns NULL, leaves the reference count,
\* the callers' references and the contexts in hand as they were, touches no
\* provider state that existed, and leaves every state its newctx produced
\* destroyed by exactly one freectx.
C16_FailedNewCleansUp ==
    [][(last'.op = "new" /\ last'.res = NULL) =>
          /\ refcnt' = refcnt /\ incs' = incs /\ decs' = decs /\ torn' = torn
          /\ acq' = acq
          /\ LiveCtxs(Cur)' = LiveCtxs(Cur)
          /\ \A c \in CtxIds : ctx[c].st = "unused" => ctx'[c].st \in {"unused", "freed"}
          /\ \A d \in Produced : heap'[d].st = "destroyed" /\ nfree'[d] = 1
          /\ \A d \in DataIds \ Produced : heap'[d] = heap[d] /\ nfree'[d] = nfree[d]
      ]_vars

\* C16 witness: the reference increment failed after newctx had produced a
\* state, while another context was in hand.
C16_Witness ==
    /\ last.op = "new" /\ last.res = NULL /\ last.calls = <<"newctx", "freectx">>
    /\ LiveCtxs(Cur) # {}
    /\ \E d \in DataIds : heap[d].st = "destroyed" /\ nfree[d] = 1

\* C17: an EVP_MAC_CTX_dup that fails on a descriptor with a duplicator (no
\* memory, the reference increment failing, or dupctx returning NULL) returns
\* NULL with the process running, leaves the reference count, the callers'
\* references and the contexts in hand as they were, leaves no provider state
\* behind, and leaves the source context and its provider state, alive and
\* never passed to freectx, exactly as they were.
C17_FailedDupLeavesSource ==
    [][(last'.op = "dup" /\ last'.res = NULL /\ meth.dupctx) =>
          /\ ~crashed'
          /\ refcnt' = refcnt /\ torn' = torn /\ incs' - decs' = incs - decs
          /\ acq' = acq
          /\ LiveCtxs(Cur)' = LiveCtxs(Cur)
          /\ \A d \in Produced : heap'[d].st = "destroyed"
          /\ \E src \in {last'.arg} :
                /\ ctx'[src] = ctx[src]
                /\ ctx'[src].st = "live" /\ ctx'[src].handle
                /\ heap'[ctx[src].data] = heap[ctx[src].data]
                /\ heap'[ctx[src].data].st = "alive"
                /\ nfree'[ctx[src].data] = 0
      ]_vars

\* C17 witness: a duplicate failed before its dupctx call, and the source and
\* another context are in hand.
C17_Witness ==
    /\ last.op = "dup" /\ last.res = NULL /\ last.err = "MALLOC_FAILURE" /\ meth.dupctx
    /\ Live(Cur, last.arg) /\ heap[ctx[last.arg].data].st = "alive"
    /\ Cardinality(LiveCtxs(Cur)) = 2

\* C18: in every interleaving, whenever a step invokes freectx (from
\* EVP_MAC_CTX_free, or from the failure paths of EVP_MAC_CTX_new and
\* EVP_MAC_CTX_dup) the descriptor has not been torn down, before the step and
\* after it, and the reference of the context being freed is still counted.
C18_DestructorBeforeUnref ==
    [][(nfree' # nfree) =>
          /\ torn = 0 /\ torn' = 0
          /\ refcnt' = refcnt /\ decs' = decs
          /\ \A t \in Threads : pc'[t] = "free_dec" /\ pc[t] # "free_dec" => refcnt' >= 1
      ]_vars

\* C18 witness: a thread has destroyed its context's provider state and not
\* yet given up the reference, while the other has made its last decrement
\* and not yet torn down.
C18_Witness ==
    /\ \E t, u \in Threads : pc[t] = "free_dec" /\ pc[u] = "tear" /\ loc[u].c # NULL
    /\ refcnt = 1 /\ torn = 0 /\ SumAcq(acq, Threads) = 0

\* C19: freectx was never invoked on NULL nor on a state that newctx or dupctx
\* did not produce, was invoked at most once on each state they produced, and
\* exactly once on each one that no context in hand holds.
C19_DestructorOncePerState ==
    Running(Cur) =>
      /\ nfree[NULL] = 0
      /\ \A d \in DataIds :
            /\ nfree[d] <= 1
            /\ heap[d].st = "unalloc" => nfree[d] = 0
            /\ heap[d].st = "destroyed" <=> nfree[d] = 1
            /\ heap[d].st = "alive" => \E c \in LiveCtxs(Cur) : ctx[c].data = d

\* The positions of the command line that hold a flag, and the flag there.
FlagAt == {i \in 1..Len(cli.args) : HasPrefix(cli.args[i])}
Exclusive == {Str("passthrough"), Str("help")}

\* C20: when the command line holds an exclusive flag (passthrough or help),
\* checkIncompatibleFlags on the list getFlags made of it returns an error
\* exactly if the command line holds a flag at another position; an exclusive
\* flag alone is accepted.
C20_ExclusiveAloneAccepted ==
    \A i \in FlagAt :
        StripDashes(cli.args[i]) \in Exclusive =>
            (cli.err # NoErr <=> FlagAt # {i})

====
